---- MODULE Spec2Model ----
(***************************************************************************)
(* Model of event-driven_scp_attachment_architecture_diagram.py: a         *)
(* straight-line script that declares 6 nodes, 3 clusters and 8 edges      *)
(* inside a `with Diagram(...)` block and renders the graph when the       *)
(* block is left.  One step of the model is one evaluation step of the     *)
(* script: entering/leaving a `with` block, constructing a node, the left  *)
(* half (node OP Edge(...)) and the right half (edge OP node) of an edge   *)
(* statement, and the two halves of leaving the Diagram block (render,     *)
(* remove the intermediate source file).                                   *)
(***************************************************************************)
EXTENDS Integers, Sequences, FiniteSets, TLC

\* Longest command line the script is started with.
MaxArgs == 1
\* Largest value of the random source node identifiers are drawn from.
MaxSeed == 1

\* Command lines and environments the script may be started with.
ArgWords == {"--show", "x"}
Argvs == UNION {[1..n -> ArgWords] : n \in 0..MaxArgs}
Environs == SUBSET {"TITLE=x", "SHOW=1"}
Seeds == 0..MaxSeed

---------------------------------------------------------------------------
\* Strings that the script's library calls transform are sequences of
\* one-character strings.

Title ==
  << "E","v","e","n","t","-","D","r","i","v","e","n"," ",
     "S","C","P"," ",
     "A","t","t","a","c","h","m","e","n","t"," ",
     "A","r","c","h","i","t","e","c","t","u","r","e"," ",
     "D","i","a","g","r","a","m" >>

UpperCase ==
  << "A","B","C","D","E","F","G","H","I","J","K","L","M",
     "N","O","P","Q","R","S","T","U","V","W","X","Y","Z" >>

LowerCase ==
  << "a","b","c","d","e","f","g","h","i","j","k","l","m",
     "n","o","p","q","r","s","t","u","v","w","x","y","z" >>

WhiteSpace == {" ", "\t", "\n", "\r"}

\* str.lower() on one character
LowerChar(c) ==
  IF \E i \in 1..Len(UpperCase) : UpperCase[i] = c
  THEN LowerCase[CHOOSE i \in 1..Len(UpperCase) : UpperCase[i] = c]
  ELSE c

\* str.lower()
Lower(s) == [i \in 1..Len(s) |-> LowerChar(s[i])]

\* str.split() without argument: the maximal runs of non-whitespace
WordStarts(s) ==
  {i \in 1..Len(s) : s[i] \notin WhiteSpace /\ (i = 1 \/ s[i - 1] \in WhiteSpace)}

WordEnd(s, i) ==
  CHOOSE j \in i..Len(s) :
    /\ \A k \in i..j : s[k] \notin WhiteSpace
    /\ j = Len(s) \/ s[j + 1] \in WhiteSpace

Split(s) ==
  LET starts == WordStarts(s)
      nth(k) == CHOOSE i \in starts : Cardinality({j \in starts : j < i}) = k - 1
  IN [k \in 1..Cardinality(starts) |-> SubSeq(s, nth(k), WordEnd(s, nth(k)))]

\* sep.join(words)
RECURSIVE JoinFrom(_, _, _)
JoinFrom(sep, words, k) ==
  IF k > Len(words) THEN <<>>
  ELSE IF k = Len(words) THEN words[k]
  ELSE words[k] \o sep \o JoinFrom(sep, words, k + 1)

Join(sep, words) == JoinFrom(sep, words, 1)

\* Diagram.__init__ without filename=: "_".join(name.split()).lower()
FileNameNoLower(name) == Join(<<"_">>, Split(name))

FileName(name) == Lower(Join(<<"_">>, Split(name)))

\* Diagram.__init__ without outformat=: "png"
OutFormat == <<"p","n","g">>

\* the file the backend writes for source file f: f "." format
ImageName(f) == f \o <<".">> \o OutFormat

Directions == {"TB", "BT", "LR", "RL"}

---------------------------------------------------------------------------
\* The statements of the script, in source order.  An edge statement
\* `a OP Edge(...) OP b` is two evaluation steps: "NodeOp" evaluates a,
\* constructs the Edge and applies a.__sub__/__rshift__; "EdgeOp" evaluates
\* b and applies Edge.__sub__/__rshift__, which connects.

Body ==
  << [line |-> 7, op |-> "Diagram", name |-> Title, show |-> FALSE, direction |-> "LR"],
     \* Source Section
     [line |-> 9, op |-> "Cluster", label |-> "AWS Organization\n(Source)"],
     [line |-> 10, op |-> "Node", var |-> "org", kind |-> "Organizations",
      label |-> "Organization Unit\n(SCP Policies)"],
     [line |-> 11, op |-> "Node", var |-> "new_account", kind |-> "OrganizationsAccount",
      label |-> "New Account\n(Create/Join)"],
     [line |-> 12, op |-> "NodeOp", var |-> "new_account", arrow |-> "-",
      style |-> "dashed", color |-> "", label |-> "Membership\nRequest"],
     [line |-> 12, op |-> "EdgeOp", var |-> "org", arrow |-> "-"],
     [line |-> 12, op |-> "EndCluster"],
     \* Collection Section
     [line |-> 15, op |-> "Cluster", label |-> "Event Collection"],
     [line |-> 16, op |-> "Node", var |-> "cloudtrail", kind |-> "Cloudtrail",
      label |-> "CloudTrail\n(Management Events)"],
     [line |-> 17, op |-> "Node", var |-> "s3", kind |-> "S3",
      label |-> "Log Storage\n(S3 Bucket)"],
     [line |-> 18, op |-> "NodeOp", var |-> "cloudtrail", arrow |-> "-",
      style |-> "dashed", color |-> "", label |-> ""],
     [line |-> 18, op |-> "EdgeOp", var |-> "s3", arrow |-> "-"],
     [line |-> 18, op |-> "EndCluster"],
     \* Processing Section
     [line |-> 21, op |-> "Cluster", label |-> "Event Processing\n(Automation)"],
     [line |-> 22, op |-> "Node", var |-> "event_bridge", kind |-> "Eventbridge",
      label |-> "EventBridge\n(AcceptHandshake Rule)"],
     [line |-> 23, op |-> "Node", var |-> "lambda_func", kind |-> "Lambda",
      label |-> "SCP Attachment\nLambda Function"],
     [line |-> 24, op |-> "NodeOp", var |-> "event_bridge", arrow |-> ">>",
      style |-> "", color |-> "green4", label |-> "Trigger"],
     [line |-> 24, op |-> "EdgeOp", var |-> "lambda_func", arrow |-> ">>"],
     [line |-> 24, op |-> "EndCluster"],
     \* Flow Connections
     [line |-> 27, op |-> "NodeOp", var |-> "org", arrow |-> ">>",
      style |-> "", color |-> "", label |-> "1. Record\nOrg Events"],
     [line |-> 27, op |-> "EdgeOp", var |-> "cloudtrail", arrow |-> ">>"],
     [line |-> 28, op |-> "NodeOp", var |-> "cloudtrail", arrow |-> ">>",
      style |-> "", color |-> "", label |-> "2. Forward\nAcceptHandshake"],
     [line |-> 28, op |-> "EdgeOp", var |-> "event_bridge", arrow |-> ">>"],
     [line |-> 29, op |-> "NodeOp", var |-> "lambda_func", arrow |-> ">>",
      style |-> "", color |-> "red", label |-> "3. Apply SCP\nPolicies"],
     [line |-> 29, op |-> "EdgeOp", var |-> "org", arrow |-> ">>"],
     \* Layout alignment helpers (invisible edges)
     [line |-> 32, op |-> "NodeOp", var |-> "new_account", arrow |-> "-",
      style |-> "invis", color |-> "", label |-> ""],
     [line |-> 32, op |-> "EdgeOp", var |-> "cloudtrail", arrow |-> "-"],
     [line |-> 33, op |-> "NodeOp", var |-> "s3", arrow |-> "-",
      style |-> "invis", color |-> "", label |-> ""],
     [line |-> 33, op |-> "EdgeOp", var |-> "event_bridge", arrow |-> "-"] >>

\* leaving the Diagram block: Diagram.__exit__ renders, then removes the source
ExitSteps ==
  << [line |-> 33, op |-> "Render"],
     [line |-> 33, op |-> "Remove"] >>

\* the last statement dedented: it runs after the Diagram block was left
ProgDedent == SubSeq(Body, 1, 27) \o ExitSteps \o SubSeq(Body, 28, 29)

\* the first flow connection written in the Source section, before line 16
ProgEdgeFirst ==
  SubSeq(Body, 1, 6) \o SubSeq(Body, 20, 21) \o SubSeq(Body, 7, 19)
    \o SubSeq(Body, 22, 29) \o ExitSteps

\* the first node constructed before the Diagram block is entered
ProgNodeOutside ==
  << Body[3], Body[1], Body[2] >> \o SubSeq(Body, 4, 29) \o ExitSteps

\* the first layout helper with `org` for `cloudtrail`
ProgHelperTypo == [Body EXCEPT ![27].var = "org"] \o ExitSteps

\* the layout helpers written with >> for -
ProgHelperArrow ==
  [Body EXCEPT ![26].arrow = ">>", ![27].arrow = ">>",
               ![28].arrow = ">>", ![29].arrow = ">>"] \o ExitSteps

Prog == Body \o ExitSteps

\* Diagram.__init__: the file name of the Diagram constructed by statement i
DiagramFile ==
  [i \in 1..Len(Prog) |->
     IF Prog[i].op = "Diagram" THEN FileName(Prog[i].name) ELSE <<>>]

\* the names the script assigns
VarNames == {"org", "new_account", "cloudtrail", "s3", "event_bridge", "lambda_func"}

---------------------------------------------------------------------------
VARIABLES
  pc,         \* index in Prog of the next step
  status,     \* "running", "done" (script ran to its end) or "error"
  err,        \* the exception that ended the run, "" if none
  argv,       \* the command line the script was started with
  environ,    \* the environment the script was started in
  seed,       \* the state of the random source of this run
  diagram,    \* the diagram context: <<>> or <<the Diagram object>>
  curCluster, \* the cluster context: index in clusters, 0 for none
  clusters,   \* the Cluster objects, in order of construction
  nodes,      \* the Node objects, by node id
  top,        \* ids of the nodes added to the diagram itself
  bind,       \* the script's variables: name -> <<node id>>, <<>> if unassigned
  edge,       \* the Edge object under construction: <<>> or <<edge>>
  edges,      \* the edges added to the diagram, in order
  fs,         \* names of the files on disk
  fsLog,      \* the file operations of the run, in order
  renders,    \* number of calls of the rendering backend
  viewer      \* whether a viewer was opened on the result

vars == << pc, status, err, argv, environ, seed, diagram, curCluster, clusters, nodes,
           top, bind, edge, edges, fs, fsLog, renders, viewer >>

graph == << diagram, curCluster, clusters, nodes, top, bind, edge, edges >>
outside == << fs, fsLog, renders, viewer >>
inputs == << argv, environ, seed >>

Stmt == Prog[pc]
Running == status = "running" /\ pc \in 1..Len(Prog)

SourceFile == FileName(Title)
ImageFile == ImageName(SourceFile)

\* the script raised: the run ends where it is
Raise(e) ==
  /\ status' = "error"
  /\ err' = e
  /\ pc' = pc

\* a step that jumps over the statement after it
AdvanceSkip ==
  /\ pc' = IF pc + 2 <= Len(Prog) THEN pc + 2 ELSE pc + 1
  /\ status' = IF pc = Len(Prog) THEN "done" ELSE "running"
  /\ err' = err

Advance ==
  /\ pc' = pc + 1
  /\ status' = IF pc = Len(Prog) THEN "done" ELSE "running"
  /\ err' = err

Init ==
  /\ pc = 1
  /\ status = "running"
  /\ err = ""
  /\ argv \in Argvs
  /\ environ \in Environs
  /\ seed \in Seeds
  /\ diagram = <<>>
  /\ curCluster = 0
  /\ clusters = <<>>
  /\ nodes = <<>>
  /\ top = {}
  /\ bind = [v \in VarNames |-> <<>>]
  /\ edge = <<>>
  /\ edges = <<>>
  /\ fs \in SUBSET {SourceFile, ImageFile}
  /\ fsLog = <<>>
  /\ renders = 0
  /\ viewer = FALSE

\* with Diagram(name, show=..., direction=...): Diagram.__init__ and __enter__
EnterDiagram ==
  /\ Running
  /\ Stmt.op = "Diagram"
  /\ IF Stmt.direction \notin Directions
     THEN /\ Raise("ValueError")
          /\ UNCHANGED << graph, outside, inputs >>
     ELSE /\ diagram' = << [name |-> Stmt.name, filename |-> DiagramFile[pc],
                            outformat |-> OutFormat, show |-> Stmt.show,
                            direction |-> Stmt.direction] >>
          /\ Advance
          /\ UNCHANGED << curCluster, clusters, nodes, top, bind, edge, edges,
                          outside, inputs >>

\* with Cluster(label): Cluster.__init__ and __enter__
EnterCluster ==
  /\ Running
  /\ Stmt.op = "Cluster"
  /\ IF diagram = <<>>
     THEN /\ Raise("EnvironmentError")
          /\ UNCHANGED << graph, outside, inputs >>
     ELSE /\ clusters' = Append(clusters, [label |-> Stmt.label, parent |-> curCluster,
                                           members |-> {}, attached |-> FALSE])
          /\ curCluster' = Len(clusters) + 1
          /\ Advance
          /\ UNCHANGED << diagram, nodes, top, bind, edge, edges, outside, inputs >>

\* end of a `with Cluster` block: Cluster.__exit__ attaches the subgraph to its
\* parent (cluster or diagram) and restores the cluster context
ExitCluster ==
  /\ Running
  /\ Stmt.op = "EndCluster"
  /\ clusters' = [clusters EXCEPT ![curCluster].attached = TRUE]
  /\ curCluster' = clusters[curCluster].parent
  /\ Advance
  /\ UNCHANGED << diagram, nodes, top, bind, edge, edges, outside, inputs >>

\* the cluster(s) a new node is added to: the current one, if any
NodeClustersAllOpen(cur) == {c \in 1..Len(clusters) : cur # 0}

NodeClusters(cur) == IF cur = 0 THEN {} ELSE {cur}

\* the label a new node gets: the constructor's argument
NodeLabelFromArgv(stmt) == IF argv = <<>> THEN stmt.label ELSE argv[1]

NodeLabel(stmt) == stmt.label

\* Node._rand_id(): a fresh identifier from the random source
RandId == << seed, Cardinality(DOMAIN nodes) + 1 >>

\* var = Kind(label): Node.__init__ draws an id, adds the node to the current
\* cluster, or to the diagram when there is none; then the assignment
NodeInit ==
  /\ Running
  /\ Stmt.op = "Node"
  /\ IF diagram = <<>>
     THEN /\ Raise("EnvironmentError")
          /\ UNCHANGED << graph, outside, inputs >>
     ELSE /\ LET id == RandId IN
               /\ nodes' = [i \in DOMAIN nodes \cup {id} |->
                              IF i = id THEN [label |-> NodeLabel(Stmt), kind |-> Stmt.kind]
                              ELSE nodes[i]]
               /\ clusters' = [c \in 1..Len(clusters) |->
                                 IF c \in NodeClusters(curCluster)
                                 THEN [clusters[c] EXCEPT !.members = @ \cup {id}]
                                 ELSE clusters[c]]
               /\ top' = IF curCluster = 0 THEN top \cup {id} ELSE top
               /\ bind' = [bind EXCEPT ![Stmt.var] = <<id>>]
          /\ Advance
          /\ UNCHANGED << diagram, curCluster, edge, edges, outside, inputs >>

\* Node.__rshift__(Edge) sets forward; Node.__sub__(Edge) does not
NodeOpForwardAlways(arrow) == TRUE

NodeOpForward(arrow) == arrow = ">>"

\* var OP Edge(style=..., color=..., label=...): the name is looked up, the Edge
\* is constructed, and Node.__sub__ / Node.__rshift__ makes the node its tail
NodeOp ==
  /\ Running
  /\ Stmt.op = "NodeOp"
  /\ IF bind[Stmt.var] = <<>>
     THEN /\ Raise("NameError")
          /\ UNCHANGED << graph, outside, inputs >>
     ELSE /\ edge' = << [node |-> bind[Stmt.var][1], forward |-> NodeOpForward(Stmt.arrow),
                         reverse |-> FALSE, style |-> Stmt.style, color |-> Stmt.color,
                         label |-> Stmt.label] >>
          /\ Advance
          /\ UNCHANGED << diagram, curCluster, clusters, nodes, top, bind, edges,
                          outside, inputs >>

\* Edge.attrs: the direction the backend is given
EdgeDir(e) ==
  IF e.forward /\ e.reverse THEN "both"
  ELSE IF e.forward THEN "forward"
  ELSE IF e.reverse THEN "back"
  ELSE "none"

\* edge OP var: the name is looked up, Edge.__rshift__ sets forward, and
\* Edge.connect -> Node.connect -> Diagram.connect adds the edge to the diagram
EdgeOp ==
  /\ Running
  /\ Stmt.op = "EdgeOp"
  /\ IF bind[Stmt.var] = <<>>
     THEN /\ Raise("NameError")
          /\ UNCHANGED << graph, outside, inputs >>
     ELSE /\ LET e == [edge[1] EXCEPT !.forward = @ \/ Stmt.arrow = ">>"]
             IN edges' = Append(edges, [tail |-> e.node, head |-> bind[Stmt.var][1],
                                        dir |-> EdgeDir(e), style |-> e.style,
                                        color |-> e.color, label |-> e.label,
                                        line |-> Stmt.line, scope |-> curCluster])
          /\ edge' = <<>>
          /\ Advance
          /\ UNCHANGED << diagram, curCluster, clusters, nodes, top, bind,
                          outside, inputs >>

\* Diagram.__exit__, first half: Diagram.render() saves the graph source to
\* filename and runs the layout backend on it, which writes the image
Render ==
  /\ Running
  /\ Stmt.op = "Render"
  /\ renders' = renders + 1
  /\ fs' = fs \cup {diagram[1].filename, ImageName(diagram[1].filename)}
  /\ fsLog' = fsLog \o << <<"write", diagram[1].filename>>,
                          <<"write", ImageName(diagram[1].filename)>> >>
  /\ viewer' = (viewer \/ diagram[1].show)
  /\ Advance
  /\ UNCHANGED << graph, inputs >>

\* the backend is missing or fails: the source is saved, no image is written,
\* and the exception leaves the script
RenderFail ==
  /\ Running
  /\ Stmt.op = "Render"
  /\ renders' = renders + 1
  /\ fs' = fs \cup {diagram[1].filename}
  /\ fsLog' = Append(fsLog, <<"write", diagram[1].filename>>)
  /\ Raise("ExecutableNotFound")
  /\ UNCHANGED << graph, viewer, inputs >>

\* Diagram.__exit__, second half: os.remove(filename), setdiagram(None)
RemoveSource ==
  /\ Running
  /\ Stmt.op = "Remove"
  /\ fs' = fs \ {diagram[1].filename}
  /\ fsLog' = Append(fsLog, <<"remove", diagram[1].filename>>)
  /\ diagram' = <<>>
  /\ Advance
  /\ UNCHANGED << curCluster, clusters, nodes, top, bind, edge, edges,
                  renders, viewer, inputs >>

Next ==
  \/ EnterDiagram
  \/ EnterCluster
  \/ ExitCluster
  \/ NodeInit
  \/ NodeOp
  \/ EdgeOp
  \/ Render
  \/ RenderFail
  \/ RemoveSource

Spec == Init /\ [][Next]_vars

\* the interpreter always takes the next step of a running script
FairSpec == Spec /\ WF_vars(Next)

---------------------------------------------------------------------------
\* What a run builds, with node ids replaced by what they identify.

Terminated == status \in {"done", "error"}

\* every statement of the block has been executed
Constructed == pc > Len(Body)

ClustersOf(id) == {c \in 1..Len(clusters) : id \in clusters[c].members}

NodeView ==
  { [label |-> nodes[id].label, kind |-> nodes[id].kind,
     clusters |-> {clusters[c].label : c \in ClustersOf(id)}] : id \in DOMAIN nodes }

ClusterView == [c \in 1..Len(clusters) |-> clusters[c].label]

EdgeView ==
  [i \in 1..Len(edges) |->
     [tail |-> nodes[edges[i].tail].label, head |-> nodes[edges[i].head].label,
      dir |-> edges[i].dir, style |-> edges[i].style, color |-> edges[i].color,
      label |-> edges[i].label]]

Built == Cardinality(DOMAIN nodes) = 6 /\ Len(clusters) = 3 /\ Len(edges) = 8

LOrg == "Organization Unit\n(SCP Policies)"
LAccount == "New Account\n(Create/Join)"
LTrail == "CloudTrail\n(Management Events)"
LS3 == "Log Storage\n(S3 Bucket)"
LBridge == "EventBridge\n(AcceptHandshake Rule)"
LLambda == "SCP Attachment\nLambda Function"

CSource == "AWS Organization\n(Source)"
CCollect == "Event Collection"
CProcess == "Event Processing\n(Automation)"

ExpectedNodes ==
  { [label |-> LOrg, kind |-> "Organizations", clusters |-> {CSource}],
    [label |-> LAccount, kind |-> "OrganizationsAccount", clusters |-> {CSource}],
    [label |-> LTrail, kind |-> "Cloudtrail", clusters |-> {CCollect}],
    [label |-> LS3, kind |-> "S3", clusters |-> {CCollect}],
    [label |-> LBridge, kind |-> "Eventbridge", clusters |-> {CProcess}],
    [label |-> LLambda, kind |-> "Lambda", clusters |-> {CProcess}] }

ExpectedEdges ==
  << [tail |-> LAccount, head |-> LOrg, dir |-> "none", style |-> "dashed",
      color |-> "", label |-> "Membership\nRequest"],
     [tail |-> LTrail, head |-> LS3, dir |-> "none", style |-> "dashed",
      color |-> "", label |-> ""],
     [tail |-> LBridge, head |-> LLambda, dir |-> "forward", style |-> "",
      color |-> "green4", label |-> "Trigger"],
     [tail |-> LOrg, head |-> LTrail, dir |-> "forward", style |-> "",
      color |-> "", label |-> "1. Record\nOrg Events"],
     [tail |-> LTrail, head |-> LBridge, dir |-> "forward", style |-> "",
      color |-> "", label |-> "2. Forward\nAcceptHandshake"],
     [tail |-> LLambda, head |-> LOrg, dir |-> "forward", style |-> "",
      color |-> "red", label |-> "3. Apply SCP\nPolicies"],
     [tail |-> LAccount, head |-> LTrail, dir |-> "none", style |-> "invis",
      color |-> "", label |-> ""],
     [tail |-> LS3, head |-> LBridge, dir |-> "none", style |-> "invis",
      color |-> "", label |-> ""] >>

ExpectedImage ==
  << "e","v","e","n","t","-","d","r","i","v","e","n","_","s","c","p","_",
     "a","t","t","a","c","h","m","e","n","t","_",
     "a","r","c","h","i","t","e","c","t","u","r","e","_",
     "d","i","a","g","r","a","m",".","p","n","g" >>

ExpectedSource == SubSeq(ExpectedImage, 1, Len(ExpectedImage) - 4)

---------------------------------------------------------------------------
\* C1: the graph is constructed once and rendered exactly once; the render
\* happens only when all 6 nodes, 3 clusters and 8 edges are declared; after
\* the render no node, cluster or edge is added, removed or changed; the
\* Diagram context is entered once (before the render) and left once (after).
C1_BuiltThenRenderedOnce ==
  /\ [](renders <= 1 /\ (renders > 0 => Built))
  /\ [][renders > 0 => UNCHANGED << nodes, clusters, top, edges >>]_vars
  /\ [][diagram' # diagram =>
          \/ diagram = <<>> /\ renders = 0 /\ pc = 1
          \/ diagram' = <<>> /\ renders = 1]_vars

C1_Witness == status = "done" /\ renders = 1 /\ Built /\ diagram = <<>>

C4_SameGraphEveryRun ==
  Constructed =>
    /\ NodeView = ExpectedNodes
    /\ ClusterView = << CSource, CCollect, CProcess >>
    /\ EdgeView = ExpectedEdges

C4_Witness ==
  /\ Constructed /\ status = "running" /\ renders = 0
  /\ argv # <<>> /\ environ # {} /\ seed # 0 /\ ExpectedImage \in fs
  /\ EdgeView = ExpectedEdges

\* C5: at every point no node is a member of two clusters, and a node of a
\* cluster is not also a node of the diagram's top level; once constructed,
\* every node is in exactly one cluster and every cluster holds exactly 2.
C5_AtMostOneCluster ==
  /\ \A id \in DOMAIN nodes :
       /\ Cardinality(ClustersOf(id)) <= 1
       /\ id \in top => ClustersOf(id) = {}
  /\ Constructed =>
       /\ \A id \in DOMAIN nodes : Cardinality(ClustersOf(id)) = 1
       /\ \A c \in 1..Len(clusters) : Cardinality(clusters[c].members) = 2
       /\ Cardinality(DOMAIN nodes) = 6 /\ Len(clusters) = 3

C5_Witness ==
  /\ Constructed /\ Len(clusters) = 3
  /\ \A c \in 1..3 : Cardinality(clusters[c].members) = 2

\* C6: every edge of the graph has two endpoints that are nodes of the graph;
\* whenever an edge statement is about to use a name, that name is already
\* assigned to a created node (no lookup fails); all 8 edges are declared.
C6_EndpointsExist ==
  /\ err # "NameError"
  /\ \A i \in 1..Len(edges) :
       edges[i].tail \in DOMAIN nodes /\ edges[i].head \in DOMAIN nodes
  /\ (Running /\ Stmt.op \in {"NodeOp", "EdgeOp"}) =>
       /\ bind[Stmt.var] # <<>>
       /\ bind[Stmt.var][1] \in DOMAIN nodes
  /\ edge # <<>> => edge[1].node \in DOMAIN nodes
  /\ Constructed => Len(edges) = 8

C6_Witness ==
  /\ Len(edges) = 8
  /\ \A i \in 1..8 : edges[i].tail \in DOMAIN nodes /\ edges[i].head \in DOMAIN nodes

\* C7: the only step that can end a run in the error state is the render
\* step (the backend failing); construction steps never do; and the step
\* into the error state leaves the graph description unchanged.
C7_OnlyRenderFails ==
  /\ [](status = "error" =>
          /\ Constructed /\ Stmt.op = "Render" /\ err = "ExecutableNotFound"
          /\ Built)
  /\ [](status # "error" => err = "")
  /\ [][status' = "error" => UNCHANGED graph]_vars

C7_Witness == status = "error" /\ Built /\ renders = 1

\* C8: the directed edges are exactly the four edges labelled "1.", "2.",
\* "Trigger" and "3."; followed in that order from the Organization node
\* they lead org -> CloudTrail -> EventBridge -> Lambda -> org, each head
\* being the next tail; the numbered ones are declared in increasing order.
EdgeNo(l) == CHOOSE i \in 1..Len(edges) : edges[i].label = l

C8_ClosedFlow ==
  Constructed =>
    LET D == {i \in 1..Len(edges) : edges[i].dir # "none"}
        e1 == EdgeNo("1. Record\nOrg Events")
        e2 == EdgeNo("2. Forward\nAcceptHandshake")
        et == EdgeNo("Trigger")
        e3 == EdgeNo("3. Apply SCP\nPolicies")
    IN /\ \A l \in {"1. Record\nOrg Events", "2. Forward\nAcceptHandshake",
                    "Trigger", "3. Apply SCP\nPolicies"} :
            Cardinality({i \in 1..Len(edges) : edges[i].label = l}) = 1
       /\ D = {e1, e2, et, e3}
       /\ Cardinality(D) = 4
       /\ \A i \in D : edges[i].dir = "forward"
       /\ nodes[edges[e1].tail].label = LOrg
       /\ nodes[edges[e1].head].label = LTrail
       /\ edges[e2].tail = edges[e1].head
       /\ nodes[edges[e2].head].label = LBridge
       /\ edges[et].tail = edges[e2].head
       /\ nodes[edges[et].head].label = LLambda
       /\ edges[e3].tail = edges[et].head
       /\ edges[e3].head = edges[e1].tail
       /\ e1 < e2 /\ e2 < e3

C8_Witness ==
  /\ Constructed
  /\ Cardinality({i \in 1..Len(edges) : edges[i].dir = "forward"}) = 4
  /\ edges[6].head = edges[4].tail

\* C9: an edge declared inside a Cluster block joins two members of that
\* cluster; an edge declared at the top level of the Diagram block joins
\* nodes of two different clusters, and these are the three numbered edges
\* and the two invisible ones; no edge is a self-loop and no two edges have
\* the same unordered pair of endpoints.
C9_EdgesAndClusters ==
  /\ \A i \in 1..Len(edges) :
       /\ edges[i].tail # edges[i].head
       /\ edges[i].scope # 0 =>
            {edges[i].tail, edges[i].head} \subseteq clusters[edges[i].scope].members
       /\ edges[i].scope = 0 =>
            /\ ClustersOf(edges[i].tail) # {}
            /\ ClustersOf(edges[i].head) # {}
            /\ ClustersOf(edges[i].tail) \cap ClustersOf(edges[i].head) = {}
       /\ \A j \in 1..Len(edges) :
            i # j => {edges[i].tail, edges[i].head} # {edges[j].tail, edges[j].head}
  /\ Constructed =>
       /\ {i \in 1..Len(edges) : edges[i].scope = 0} = 4..8
       /\ {edges[i].scope : i \in 1..3} = {1, 2, 3}
       /\ {edges[i].label : i \in 4..6} =
            {"1. Record\nOrg Events", "2. Forward\nAcceptHandshake",
             "3. Apply SCP\nPolicies"}
       /\ \A i \in 7..8 : edges[i].style = "invis"

C9_Witness ==
  /\ Constructed /\ Len(edges) = 8
  /\ edges[1].scope = 1 /\ edges[8].scope = 0

\* C10: the two layout-helper edges (New Account - CloudTrail, S3 -
\* EventBridge) are the edges of style "invis"; they are undirected, have no
\* label and no color, and are declared after every visible edge; without
\* them the directed edges and the labelled edges are the same sets.
C10_InvisibleHelpers ==
  Constructed =>
    LET all == 1..Len(edges)
        H == {i \in all : edges[i].style = "invis"}
        Directed(S) == {i \in S : edges[i].dir # "none"}
        Labelled(S) == {i \in S : edges[i].label # ""}
    IN /\ { <<nodes[edges[i].tail].label, nodes[edges[i].head].label>> : i \in H }
            = { <<LAccount, LTrail>>, <<LS3, LBridge>> }
       /\ Cardinality(H) = 2
       /\ \A i \in H : /\ edges[i].dir = "none"
                       /\ edges[i].label = ""
                       /\ edges[i].color = ""
                       /\ edges[i].line \in 32..33
       /\ \A i \in H : \A j \in all \ H : j < i
       /\ Directed(all \ H) = Directed(all)
       /\ Labelled(all \ H) = Labelled(all)
       /\ Cardinality(Directed(all)) = 4
       /\ Cardinality(Labelled(all)) = 5

C10_Witness ==
  /\ Constructed /\ Len(edges) = 8
  /\ edges[7].style = "invis" /\ edges[8].style = "invis"
  /\ edges[7].dir = "none"

====
